---- MODULE Spec2Model ----
(***************************************************************************)
(* ProjectFlow tracker: employees belong to teams, teams own projects,     *)
(* projects contain tasks, tasks carry assignees and comments.             *)
(*                                                                         *)
(* The persisted state is the relational store (Team, Project, Task,       *)
(* Comment rows and the two many-to-many relations).  Every view of        *)
(* tracker/views.py is an operator that maps the current store and one     *)
(* request to a response and the store it commits; the actions apply the   *)
(* views to the store.  Fields no rule reads (description, created_at,     *)
(* task_type, comment content) are left out of the rows.  The sign-up      *)
(* route has its own rows (position, account); the list pages and the      *)
(* paginator read the store and write nothing.                             *)
(***************************************************************************)
EXTENDS Integers, Sequences, FiniteSets, TLC

VARIABLES team, project, task, comment, seq, today, last, call, position, account

db == <<team, project, task, comment, seq>>
\* the Position rows and the Employee rows the sign-up route adds
reg == <<position, account>>
vars == <<team, project, task, comment, seq, today, last, call, position, account>>

(***************************************************************************)
(* Bounds of the model.                                                    *)
(***************************************************************************)
NumEmployees == 2
MaxTeams == 2
MaxProjects == 2
MaxTasks == 2
MaxComments == 1
MaxRows == 4
MaxDay == 1
MaxLen == 3

Employee == 1..NumEmployees
TeamId == 1..MaxTeams
ProjectId == 1..MaxProjects
TaskId == 1..MaxTasks
CommentId == 1..MaxComments

(***************************************************************************)
(* Text.  A string is a sequence of one-character strings.                 *)
(***************************************************************************)
Digits == <<"0", "1", "2", "3", "4", "5", "6", "7", "8", "9">>

IsDigit(c) == \E i \in 1..10 : Digits[i] = c

DigitVal(c) == (CHOOSE i \in 1..10 : Digits[i] = c) - 1

\* str(i) for a one-digit primary key
Str(i) == <<Digits[i + 1]>>

RECURSIVE LStrip(_)
LStrip(s) == IF s # <<>> /\ Head(s) = " " THEN LStrip(Tail(s)) ELSE s

RECURSIVE RStrip(_)
RStrip(s) ==
    IF s # <<>> /\ s[Len(s)] = " " THEN RStrip(SubSeq(s, 1, Len(s) - 1)) ELSE s

\* str.strip()
Strip(s) == RStrip(LStrip(s))

\* str.split(","): "a,,b" gives <<"a", "", "b">> and "" gives <<"">>
RECURSIVE Split(_)
Split(s) ==
    IF \A i \in 1..Len(s) : s[i] # ","
    THEN <<s>>
    ELSE LET i == CHOOSE j \in 1..Len(s) :
                      s[j] = "," /\ \A k \in 1..(j - 1) : s[k] # ","
         IN  <<SubSeq(s, 1, i - 1)>> \o Split(SubSeq(s, i + 1, Len(s)))

RECURSIVE MapStrip(_)
MapStrip(toks) ==
    IF toks = <<>> THEN <<>> ELSE <<Strip(Head(toks))>> \o MapStrip(Tail(toks))

NonEmpty(tok) == tok # <<>>

\* int(tok) succeeds: the token is a run of decimal digits
IsInt(tok) == tok # <<>> /\ \A i \in 1..Len(tok) : IsDigit(tok[i])

\* int(tok)
RECURSIVE IntVal(_)
IntVal(tok) ==
    IF tok = <<>> THEN 0
    ELSE IntVal(SubSeq(tok, 1, Len(tok) - 1)) * 10 + DigitVal(tok[Len(tok)])

\* int(text): blanks around, an optional minus sign, decimal digits
ParseInt(text) ==
    LET t == Strip(text)
        minus == t # <<>> /\ Head(t) = "-"
        digits == IF minus THEN Tail(t) ELSE t
    IN  IF IsInt(digits)
        THEN [ok |-> TRUE, value |-> IF minus THEN 0 - IntVal(digits) ELSE IntVal(digits)]
        ELSE [ok |-> FALSE, value |-> 0]

Range(s) == {s[i] : i \in 1..Len(s)}

(***************************************************************************)
(* utils.clean_ids_field: the comma-separated id list resolver.  pks is    *)
(* the set of primary keys of model_class that exist.                      *)
(***************************************************************************)
Failure(msg) == [ok |-> FALSE, error |-> msg, objects |-> {}]

\* len(objects) != len(ids): rows found against tokens parsed
CountMismatch(ids, objects) == Cardinality(objects) # Len(ids)

clean_ids_field(data_ids, pks) ==
    IF data_ids = <<>> THEN Failure("empty")
    ELSE LET ids == SelectSeq(MapStrip(Split(data_ids)), NonEmpty)
         IN  IF ids = <<>> THEN Failure("empty")
             ELSE IF \E i \in 1..Len(ids) : ~IsInt(ids[i]) THEN Failure("not_integer")
             ELSE LET nums == [i \in 1..Len(ids) |-> IntVal(ids[i])]
                      objects == {pk \in pks : pk \in Range(nums)}
                  IN  IF CountMismatch(nums, objects) THEN Failure("invalid_ids")
                      ELSE [ok |-> TRUE, error |-> "", objects |-> objects]

(***************************************************************************)
(* The store.  team, project, task and comment map the primary keys of the *)
(* rows that exist to the rows; seq holds the last primary key each table  *)
(* handed out (AutoField: keys are never reused).                          *)
(***************************************************************************)
PRIORITY_CHOICES == {"urgent", "high", "medium", "low"}

Restrict(f, S) == [x \in S |-> f[x]]

Teams == DOMAIN team
Projects == DOMAIN project
Tasks == DOMAIN task
Comments == DOMAIN comment

\* Team.objects.filter(members=user)
TeamsOf(u) == {t \in Teams : u \in team[t].members}

\* Project.objects.filter(team__members=user)
ProjectsOf(u) == {p \in Projects : project[p].team \in TeamsOf(u)}

(***************************************************************************)
(* Access guard: the membership test every guarded dispatch() makes.       *)
(***************************************************************************)
IsMember_open(u, t) == TRUE

IsMember(u, t) == u \in team[t].members

(***************************************************************************)
(* A view's outcome: the response, the fields the form rejected, and the   *)
(* store the request commits.                                              *)
(***************************************************************************)
Reject(resp, errs) ==
    [resp |-> resp, errors |-> errs, team |-> team, project |-> project,
     task |-> task, comment |-> comment, seq |-> seq]

Commit(t, p, k, c, s) ==
    [resp |-> "ok", errors |-> {}, team |-> t, project |-> p,
     task |-> k, comment |-> c, seq |-> s]

(***************************************************************************)
(* on_delete=CASCADE: the rows that go with the rows being deleted.        *)
(***************************************************************************)
ProjectCascade_none(T) == {}

\* Project.team
ProjectCascade(T) == {p \in Projects : project[p].team \in T}

\* Task.project
TaskCascade(P) == {k \in Tasks : task[k].project \in P}

\* Comment.task
CommentCascade(K) == {c \in Comments : comment[c].task \in K}

\* Model.delete() of the teams T, projects P, tasks K and comments C
Delete(T, P, K, C) ==
    LET P2 == P \cup ProjectCascade(T)
        K2 == K \cup TaskCascade(P2)
        C2 == C \cup CommentCascade(K2)
    IN  Commit(Restrict(team, Teams \ T), Restrict(project, Projects \ P2),
               Restrict(task, Tasks \ K2), Restrict(comment, Comments \ C2), seq)

(***************************************************************************)
(* Form validation.  Each operator gives the set of rejected fields.       *)
(***************************************************************************)
NameTaken_never(table, pk, name) == FALSE

\* unique=True, checked by ModelForm.validate_unique against the other rows
NameTaken(table, pk, name) ==
    \E k \in DOMAIN table : k # pk /\ table[k].name = name

NameErrors(table, pk, name) ==
    IF name = "" \/ NameTaken(table, pk, name) THEN {"name"} ELSE {}

IdsFieldErrors_none(field, data) == {}

\* CharField (strip, required) then clean_member_ids / clean_assignees_ids
IdsFieldErrors(field, data) ==
    IF Strip(data) = <<>> \/ ~clean_ids_field(Strip(data), Employee).ok
    THEN {field} ELSE {}

IdsFieldValue_all(data) == Employee

\* the cleaned value of the field: the employees the list resolved to
IdsFieldValue(data) == clean_ids_field(Strip(data), Employee).objects

DeadlinePassed_strict(deadline) == deadline < today

\* Project.clean / Task.clean: self.deadline <= timezone.now().date()
DeadlinePassed(deadline) == deadline <= today

DeadlineErrors(deadline) == IF DeadlinePassed(deadline) THEN {"deadline"} ELSE {}

TeamsChoiceErrors_any(u, choice) ==
    IF choice \in Teams THEN {} ELSE {"teams_choice"}

\* ModelChoiceField over Team.objects.filter(members=self.user)
TeamsChoiceErrors(u, choice) ==
    IF choice \in TeamsOf(u) THEN {} ELSE {"teams_choice"}

\* ModelChoiceField over Project.objects.filter(team__members=self.user)
ProjectChoiceErrors(u, choice) ==
    IF choice \in ProjectsOf(u) THEN {} ELSE {"project_choice"}

PriorityErrors_none(priority) == {}

\* the priority field of the task forms: required, one of the choices the
\* model field had when the form class was built
PriorityErrors(priority) ==
    IF priority \in PRIORITY_CHOICES THEN {} ELSE {"priority"}

\* CreateTeamForm / UpdateTeamForm (pk = 0: no instance yet)
TeamFormErrors(pk, name, member_ids) ==
    NameErrors(team, pk, name) \cup IdsFieldErrors("member_ids", member_ids)

ProjectFormErrors_ifchanged(u, pk, name, deadline, teams_choice) ==
    NameErrors(project, pk, name)
        \cup (IF pk \in Projects /\ project[pk].deadline = deadline
              THEN {} ELSE DeadlineErrors(deadline))
        \cup TeamsChoiceErrors(u, teams_choice)

\* CreateProjectForm / UpdateProjectForm
ProjectFormErrors(u, pk, name, deadline, teams_choice) ==
    NameErrors(project, pk, name) \cup DeadlineErrors(deadline)
        \cup TeamsChoiceErrors(u, teams_choice)

\* CreateTasksForm / UpdateTaskForm
TaskFormErrors(u, pk, name, deadline, priority, assignees_ids, project_choice) ==
    NameErrors(task, pk, name) \cup DeadlineErrors(deadline)
        \cup PriorityErrors(priority)
        \cup IdsFieldErrors("assignees_ids", assignees_ids)
        \cup ProjectChoiceErrors(u, project_choice)

AddMemberFormErrors_none(u, pk, employee_id) == {}

\* AddMemberForm.clean_employee_id
AddMemberFormErrors(u, pk, employee_id) ==
    IF employee_id = u THEN {"employee_id"}
    ELSE IF employee_id = 0 THEN {"employee_id"}
    ELSE IF employee_id \in team[pk].members THEN {"employee_id"}
    ELSE IF employee_id \notin Employee THEN {"employee_id"}
    ELSE {}

\* CreateCommentForm: content is required
CommentFormErrors(content) == IF content = "" THEN {"content"} ELSE {}

(***************************************************************************)
(* The views.  Each takes the requester u (an authenticated employee) and  *)
(* the data of a POST (of a GET for the detail pages) and gives the        *)
(* outcome on the current store.                                           *)
(***************************************************************************)
create_team_form_view(u, name, member_ids) ==
    LET errs == TeamFormErrors(0, name, member_ids)
        pk == seq.team + 1
    IN  IF errs # {} THEN Reject("invalid", errs)
        ELSE Commit(team @@ (pk :> [name |-> name, members |-> IdsFieldValue(member_ids)]),
                    project, task, comment, [seq EXCEPT !.team = pk])

UpdateTeamView(u, pk, name, member_ids) ==
    IF pk \notin Teams THEN Reject("not_found", {})
    ELSE IF ~IsMember(u, pk) THEN Reject("forbidden", {})
    ELSE LET errs == TeamFormErrors(pk, name, member_ids)
         IN  IF errs # {} THEN Reject("invalid", errs)
             ELSE Commit([team EXCEPT ![pk] =
                              [name |-> name, members |-> IdsFieldValue(member_ids)]],
                         project, task, comment, seq)

DeleteTeamView(u, pk) ==
    IF pk \notin Teams THEN Reject("not_found", {})
    ELSE IF ~IsMember(u, pk) THEN Reject("forbidden", {})
    ELSE Delete({pk}, {}, {}, {})

\* Team.objects.get(pk=pk) raises DoesNotExist for a missing row
team_details_page_view(u, pk) ==
    IF pk \notin Teams THEN Reject("error", {}) ELSE Reject("detail", {})

AddNewMemberToTeam(u, pk, employee_id) ==
    IF pk \notin Teams THEN Reject("not_found", {})
    ELSE IF ~IsMember(u, pk) THEN Reject("forbidden", {})
    ELSE LET errs == AddMemberFormErrors(u, pk, employee_id)
         IN  IF errs # {} THEN Reject("invalid", errs)
             ELSE Commit([team EXCEPT ![pk].members = @ \cup {employee_id}],
                         project, task, comment, seq)

\* AddNewMemberToTeam (POST) with the field as text: IntegerField(required)
\* refuses an empty text and one that is no integer before clean_employee_id
AddNewMemberToTeam_post(u, pk, text) ==
    IF pk \notin Teams THEN Reject("not_found", {})
    ELSE IF ~IsMember(u, pk) THEN Reject("forbidden", {})
    ELSE IF ~ParseInt(text).ok THEN Reject("invalid", {"employee_id"})
    ELSE AddNewMemberToTeam(u, pk, ParseInt(text).value)

RemoveMember_clear(members, m) == {}

\* team.members.remove(member_to_delete)
RemoveMember(members, m) == members \ {m}

IsSelf_never(member_pk, u) == FALSE

\* member_to_delete == request.user
IsSelf(member_pk, u) == member_pk = u

DeleteMemberFromTeam(u, team_pk, member_pk) ==
    IF team_pk \notin Teams THEN Reject("not_found", {})
    ELSE IF ~IsMember(u, team_pk) THEN Reject("forbidden", {})
    ELSE IF member_pk \notin Employee THEN Reject("not_found", {})
    ELSE IF IsSelf(member_pk, u) THEN Reject("self_removal_error", {})
    ELSE Commit([team EXCEPT ![team_pk].members = RemoveMember(@, member_pk)],
                project, task, comment, seq)

create_project_form_view(u, name, deadline, is_completed, teams_choice) ==
    LET errs == ProjectFormErrors(u, 0, name, deadline, teams_choice)
        pk == seq.project + 1
    IN  IF errs # {} THEN Reject("invalid", errs)
        ELSE Commit(team,
                    project @@ (pk :> [name |-> name, deadline |-> deadline,
                                       is_completed |-> is_completed,
                                       team |-> teams_choice]),
                    task, comment, [seq EXCEPT !.project = pk])

UpdateProjectView(u, pk, name, deadline, is_completed, teams_choice) ==
    IF pk \notin Projects THEN Reject("not_found", {})
    ELSE IF ~IsMember(u, project[pk].team) THEN Reject("forbidden", {})
    ELSE LET errs == ProjectFormErrors(u, pk, name, deadline, teams_choice)
         IN  IF errs # {} THEN Reject("invalid", errs)
             ELSE Commit(team,
                         [project EXCEPT ![pk] =
                              [name |-> name, deadline |-> deadline,
                               is_completed |-> is_completed, team |-> teams_choice]],
                         task, comment, seq)

DeleteProjectView(u, pk) ==
    IF pk \notin Projects THEN Reject("not_found", {})
    ELSE IF ~IsMember(u, project[pk].team) THEN Reject("forbidden", {})
    ELSE Delete({}, {pk}, {}, {})

project_details_page_view(u, pk) ==
    IF pk \notin Projects THEN Reject("error", {}) ELSE Reject("detail", {})

create_task_form_view(u, name, deadline, is_completed, priority, assignees_ids, project_choice) ==
    LET errs == TaskFormErrors(u, 0, name, deadline, priority, assignees_ids,
                               project_choice)
        pk == seq.task + 1
    IN  IF errs # {} THEN Reject("invalid", errs)
        ELSE Commit(team, project,
                    task @@ (pk :> [name |-> name, deadline |-> deadline,
                                    is_completed |-> is_completed,
                                    priority |-> priority,
                                    assignees |-> IdsFieldValue(assignees_ids),
                                    project |-> project_choice]),
                    comment, [seq EXCEPT !.task = pk])

UpdateTaskView(u, pk, name, deadline, is_completed, priority, assignees_ids, project_choice) ==
    IF pk \notin Tasks THEN Reject("not_found", {})
    ELSE IF ~IsMember(u, project[task[pk].project].team) THEN Reject("forbidden", {})
    ELSE LET errs == TaskFormErrors(u, pk, name, deadline, priority, assignees_ids,
                                    project_choice)
         IN  IF errs # {} THEN Reject("invalid", errs)
             ELSE Commit(team, project,
                         [task EXCEPT ![pk] =
                              [name |-> name, deadline |-> deadline,
                               is_completed |-> is_completed, priority |-> priority,
                               assignees |-> IdsFieldValue(assignees_ids),
                               project |-> project_choice]],
                         comment, seq)

DeleteTaskView(u, pk) ==
    IF pk \notin Tasks THEN Reject("not_found", {})
    ELSE IF ~IsMember(u, project[task[pk].project].team) THEN Reject("forbidden", {})
    ELSE Delete({}, {}, {pk}, {})

\* GET: Task.objects.get(pk=pk), then the page
task_details_page_view(u, pk) ==
    IF pk \notin Tasks THEN Reject("error", {}) ELSE Reject("detail", {})

\* POST: the comment form of the task page
task_details_page_view_post(u, pk, content) ==
    LET errs == CommentFormErrors(content)
        c == seq.comment + 1
    IN  IF pk \notin Tasks THEN Reject("error", {})
        ELSE IF errs # {} THEN Reject("detail", errs)
        ELSE Commit(team, project, task,
                    comment @@ (c :> [task |-> pk, employee |-> u]),
                    [seq EXCEPT !.comment = c])

DeleteCommentView(u, pk) ==
    IF pk \notin Comments THEN Reject("not_found", {})
    ELSE Delete({}, {}, {}, {pk})

(***************************************************************************)
(* Actions: one request handled and its outcome committed.  A request that *)
(* is refused commits nothing; last names the request that last wrote to   *)
(* the store and the employee who made it.                                 *)
(***************************************************************************)
\* primary keys handed out so far, over all tables
Allocated == seq.team + seq.project + seq.task + seq.comment

Apply(op, u, r) ==
    /\ team' = r.team
    /\ project' = r.project
    /\ task' = r.task
    /\ comment' = r.comment
    /\ seq' = r.seq
    /\ last' = IF r.resp = "ok" THEN [op |-> op, user |-> u] ELSE last
    /\ UNCHANGED <<today, call, reg>>

CreateTeam(u, name, ids) ==
    /\ seq.team < MaxTeams /\ Allocated < MaxRows
    /\ Apply("create_team", u, create_team_form_view(u, name, ids))

UpdateTeam(u, pk, name, ids) ==
    Apply("update_team", u, UpdateTeamView(u, pk, name, ids))

DeleteTeam(u, pk) == Apply("delete_team", u, DeleteTeamView(u, pk))

TeamDetails(u, pk) == Apply("team_details", u, team_details_page_view(u, pk))

AddMember(u, pk, e) == Apply("add_member", u, AddNewMemberToTeam(u, pk, e))

AddMemberText(u, pk, text) == Apply("add_member", u, AddNewMemberToTeam_post(u, pk, text))

DeleteMember(u, pk, m) == Apply("delete_member", u, DeleteMemberFromTeam(u, pk, m))

CreateProject(u, name, d, c, t) ==
    /\ seq.project < MaxProjects /\ Allocated < MaxRows
    /\ Apply("create_project", u, create_project_form_view(u, name, d, c, t))

UpdateProject(u, pk, name, d, c, t) ==
    Apply("update_project", u, UpdateProjectView(u, pk, name, d, c, t))

DeleteProject(u, pk) == Apply("delete_project", u, DeleteProjectView(u, pk))

ProjectDetails(u, pk) == Apply("project_details", u, project_details_page_view(u, pk))

CreateTask(u, name, d, c, pr, ids, p) ==
    /\ seq.task < MaxTasks /\ Allocated < MaxRows
    /\ Apply("create_task", u, create_task_form_view(u, name, d, c, pr, ids, p))

UpdateTask(u, pk, name, d, c, pr, ids, p) ==
    Apply("update_task", u, UpdateTaskView(u, pk, name, d, c, pr, ids, p))

DeleteTask(u, pk) == Apply("delete_task", u, DeleteTaskView(u, pk))

TaskDetails(u, pk) == Apply("task_details", u, task_details_page_view(u, pk))

CreateComment(u, pk, content) ==
    /\ seq.comment < MaxComments /\ Allocated < MaxRows
    /\ Apply("create_comment", u, task_details_page_view_post(u, pk, content))

DeleteComment(u, pk) == Apply("delete_comment", u, DeleteCommentView(u, pk))

\* a day passes
Tick ==
    /\ today < MaxDay
    /\ today' = today + 1
    /\ UNCHANGED <<db, last, call, reg>>

(***************************************************************************)
(* Requests.  The data a request may carry.                                *)
(***************************************************************************)
Names == {"a", "b"}

Contents == {"", "text"}

\* ", ".join(str(e.id) for e in S), the way the update forms prefill the field
RECURSIVE JoinIds(_)
JoinIds(S) ==
    IF S = {} THEN <<>>
    ELSE LET m == CHOOSE x \in S : \A y \in S : x <= y
         IN  IF S = {m} THEN Str(m)
             ELSE Str(m) \o <<",", " ">> \o JoinIds(S \ {m})

\* "1", "2", "1, 2", ...: the lists that name employees, each once
IdsInputs == {JoinIds(S) : S \in (SUBSET Employee) \ {{}}}

\* also "1,1", "9", "x", " " and ""
IdsInputsWide ==
    IdsInputs \cup {Str(1) \o <<",">> \o Str(1), <<"9">>, <<"x">>, <<" ">>, <<>>}

\* every text of at most MaxLen characters over these six
IdsAlphabet == {"1", "2", "9", ",", " ", "x"}

IdsStrings == UNION {[1..n -> IdsAlphabet] : n \in 0..MaxLen}

EmployeeIdInputs == 0..(NumEmployees + 1)

\* the texts the employee_id field may carry
EmployeeIdTexts == {<<>>, <<" ">>, <<"x">>, <<"0">>, <<"-", "1">>} \cup
                   {Str(e) : e \in 1..(NumEmployees + 1)}

\* a deadline of yesterday, of today, of tomorrow
DeadlinesAround == {today - 1, today, today + 1}

Deadlines == 0..(MaxDay + 1)

NoCall == [op |-> "none"]

EmptyStore ==
    /\ team = <<>>
    /\ project = <<>>
    /\ task = <<>>
    /\ comment = <<>>
    /\ seq = [team |-> 0, project |-> 0, task |-> 0, comment |-> 0]
    /\ last = [op |-> "start", user |-> 0]
    /\ position = {}
    /\ account = <<>>

(***************************************************************************)
(* Spec: all the routes, on one day, from the empty store.                 *)
(***************************************************************************)
Init == EmptyStore /\ today = 1 /\ call = NoCall

Next ==
    \/ \E u \in Employee, name \in Names, ids \in IdsInputs :
           CreateTeam(u, name, ids)
    \/ \E u \in Employee, pk \in TeamId, name \in Names, ids \in IdsInputs :
           UpdateTeam(u, pk, name, ids)
    \/ \E u \in Employee, pk \in TeamId : DeleteTeam(u, pk)
    \/ \E u \in Employee, pk \in TeamId : TeamDetails(u, pk)
    \/ \E u \in Employee, pk \in TeamId, e \in Employee : AddMember(u, pk, e)
    \/ \E u \in Employee, pk \in TeamId, m \in Employee : DeleteMember(u, pk, m)
    \/ \E u \in Employee, name \in Names, d \in DeadlinesAround, t \in TeamId :
           CreateProject(u, name, d, FALSE, t)
    \/ \E u \in Employee, pk \in ProjectId, name \in Names, d \in DeadlinesAround,
          t \in TeamId :
           UpdateProject(u, pk, name, d, FALSE, t)
    \/ \E u \in Employee, pk \in ProjectId : DeleteProject(u, pk)
    \/ \E u \in Employee, pk \in ProjectId : ProjectDetails(u, pk)
    \/ \E u \in Employee, name \in Names, d \in DeadlinesAround, ids \in IdsInputs,
          p \in ProjectId :
           CreateTask(u, name, d, FALSE, "low", ids, p)
    \/ \E u \in Employee, pk \in TaskId, name \in Names, d \in DeadlinesAround,
          ids \in IdsInputs, p \in ProjectId :
           UpdateTask(u, pk, name, d, FALSE, "low", ids, p)
    \/ \E u \in Employee, pk \in TaskId : DeleteTask(u, pk)
    \/ \E u \in Employee, pk \in TaskId : TaskDetails(u, pk)
    \/ \E u \in Employee, pk \in TaskId, content \in Contents :
           CreateComment(u, pk, content)
    \/ \E u \in Employee, pk \in CommentId : DeleteComment(u, pk)

Spec == Init /\ [][Next]_vars

(***************************************************************************)
(* SpecTeam: the team routes alone, with malformed id lists and employee   *)
(* ids, from the empty store.                                              *)
(***************************************************************************)
NextTeam ==
    \/ \E u \in Employee, name \in Names, ids \in IdsInputsWide :
           CreateTeam(u, name, ids)
    \/ \E u \in Employee, pk \in TeamId, name \in Names, ids \in IdsInputsWide :
           UpdateTeam(u, pk, name, ids)
    \/ \E u \in Employee, pk \in TeamId : DeleteTeam(u, pk)
    \/ \E u \in Employee, pk \in TeamId : TeamDetails(u, pk)
    \/ \E u \in Employee, pk \in TeamId, e \in EmployeeIdInputs : AddMember(u, pk, e)
    \/ \E u \in Employee, pk \in TeamId, text \in EmployeeIdTexts :
           AddMemberText(u, pk, text)
    \/ \E u \in Employee, pk \in TeamId, m \in EmployeeIdInputs : DeleteMember(u, pk, m)

SpecTeam == Init /\ [][NextTeam]_vars

(***************************************************************************)
(* SpecDeadline: project and task saves while the days pass, on a store    *)
(* that holds one team of all the employees (employee 1 created it with    *)
(* every employee listed).                                                 *)
(***************************************************************************)
InitDeadline ==
    /\ team = (1 :> [name |-> "a", members |-> Employee])
    /\ project = <<>>
    /\ task = <<>>
    /\ comment = <<>>
    /\ seq = [team |-> 1, project |-> 0, task |-> 0, comment |-> 0]
    /\ last = [op |-> "create_team", user |-> 1]
    /\ today = 0
    /\ call = NoCall
    /\ position = {}
    /\ account = <<>>

NextDeadline ==
    \/ \E name \in Names, d \in Deadlines, c \in BOOLEAN :
           CreateProject(1, name, d, c, 1)
    \/ \E pk \in ProjectId, name \in Names, d \in Deadlines, c \in BOOLEAN :
           UpdateProject(1, pk, name, d, c, 1)
    \/ \E name \in Names, d \in Deadlines, c \in BOOLEAN, p \in ProjectId :
           CreateTask(1, name, d, c, "low", Str(1), p)
    \/ \E pk \in TaskId, name \in Names, d \in Deadlines, c \in BOOLEAN,
          p \in ProjectId :
           UpdateTask(1, pk, name, d, c, "low", Str(1), p)
    \/ Tick

SpecDeadline == InitDeadline /\ [][NextDeadline]_vars

(***************************************************************************)
(* SpecIds: the id list resolver applied to every short text, with the     *)
(* employees as the rows that exist.                                       *)
(***************************************************************************)
InitIds ==
    /\ EmptyStore
    /\ today = 1
    /\ call \in {[op |-> "input", data_ids |-> s] : s \in IdsStrings}

Resolve ==
    /\ call.op = "input"
    /\ call' = [op |-> "clean_ids_field", data_ids |-> call.data_ids,
                result |-> clean_ids_field(call.data_ids, Employee)]
    /\ UNCHANGED <<db, today, last, reg>>

SpecIds == InitIds /\ [][Resolve]_vars

(***************************************************************************)
(* Properties.                                                             *)
(***************************************************************************)
\* the outcome r commits nothing
Unchanged(r) ==
    /\ r.team = team
    /\ r.project = project
    /\ r.task = task
    /\ r.comment = comment

Refused(r) == r.resp = "forbidden" /\ Unchanged(r)

NonEmptySubsets(S) == (SUBSET S) \ {{}}

\* no other row of the table carries the name
FreeName(table, pk, name) == \A k \in DOMAIN table : k = pk \/ table[k].name # name

MemberOfProject(u, p) == u \in team[project[p].team].members

MemberOfTask(u, k) == u \in team[project[task[k].project].team].members

\* C1: an update or a delete of a team, a project or a task asked by an
\* employee outside the owning team is answered with the forbidden page and
\* commits nothing; asked by a member, the delete removes the row and the
\* update with valid data stores exactly that data.
C1_GuardedUpdateDelete ==
    \A u \in Employee :
        /\ \A t \in Teams :
               LET mem == u \in team[t].members
                   del == DeleteTeamView(u, t)
               IN  /\ IF mem THEN del.resp = "ok" /\ t \notin DOMAIN del.team
                       ELSE Refused(del)
                   /\ \A name \in Names, S \in NonEmptySubsets(Employee) :
                          LET upd == UpdateTeamView(u, t, name, JoinIds(S))
                          IN  IF ~mem THEN Refused(upd)
                              ELSE FreeName(team, t, name) =>
                                       /\ upd.resp = "ok"
                                       /\ upd.team[t] = [name |-> name, members |-> S]
        /\ \A p \in Projects :
               LET mem == MemberOfProject(u, p)
                   del == DeleteProjectView(u, p)
               IN  /\ IF mem THEN del.resp = "ok" /\ p \notin DOMAIN del.project
                       ELSE Refused(del)
                   /\ \A name \in Names, d \in DeadlinesAround, c \in BOOLEAN,
                         t \in TeamId :
                          LET upd == UpdateProjectView(u, p, name, d, c, t)
                          IN  IF ~mem THEN Refused(upd)
                              ELSE (/\ FreeName(project, p, name)
                                    /\ d > today
                                    /\ t \in Teams
                                    /\ u \in team[t].members) =>
                                       /\ upd.resp = "ok"
                                       /\ upd.project[p] =
                                              [name |-> name, deadline |-> d,
                                               is_completed |-> c, team |-> t]
        /\ \A k \in Tasks :
               LET mem == MemberOfTask(u, k)
                   del == DeleteTaskView(u, k)
               IN  /\ IF mem THEN del.resp = "ok" /\ k \notin DOMAIN del.task
                       ELSE Refused(del)
                   /\ \A name \in Names, d \in DeadlinesAround, c \in BOOLEAN,
                         pr \in PRIORITY_CHOICES, S \in NonEmptySubsets(Employee),
                         p \in ProjectId :
                          LET upd == UpdateTaskView(u, k, name, d, c, pr, JoinIds(S), p)
                          IN  IF ~mem THEN Refused(upd)
                              ELSE (/\ FreeName(task, k, name)
                                    /\ d > today
                                    /\ p \in Projects
                                    /\ MemberOfProject(u, p)) =>
                                       /\ upd.resp = "ok"
                                       /\ upd.task[k] =
                                              [name |-> name, deadline |-> d,
                                               is_completed |-> c, priority |-> pr,
                                               assignees |-> S, project |-> p]

\* a task was just updated in a store where some employee is outside the team
\* that owns a task, so that both halves of C1 have a request to act on
C1_Witness ==
    /\ last.op = "update_task"
    /\ \E k \in Tasks, u \in Employee, v \in Employee :
           /\ ~MemberOfTask(u, k)
           /\ MemberOfTask(v, k)
           /\ DeleteTaskView(u, k).resp = "forbidden"
           /\ DeleteTaskView(v, k).resp = "ok"

\* C2: the detail pages of a team, a project and a task answer an employee
\* outside the owning team with the forbidden page, never with the content.
C2_DetailGuarded ==
    \A u \in Employee :
        /\ \A t \in Teams :
               u \notin team[t].members =>
                   team_details_page_view(u, t).resp = "forbidden"
        /\ \A p \in Projects :
               ~MemberOfProject(u, p) =>
                   project_details_page_view(u, p).resp = "forbidden"
        /\ \A k \in Tasks :
               ~MemberOfTask(u, k) =>
                   task_details_page_view(u, k).resp = "forbidden"

\* C3: a comment is added to a task, or deleted from it, only for a requester
\* who is a member of the team that owns the task's project.
C3_CommentsByMembersOnly ==
    [][\A c \in CommentId :
           /\ (c \in DOMAIN comment' /\ c \notin Comments) =>
                  MemberOfTask(last'.user, comment'[c].task)
           /\ (c \in Comments /\ c \notin DOMAIN comment') =>
                  MemberOfTask(last'.user, comment[c].task)]_vars

\* C4: a member who asks to be removed from their own team gets the explicit
\* self-removal error on the confirmation page, not the forbidden page, and
\* nothing is committed.
C4_SelfRemovalRejected ==
    \A t \in Teams :
        \A u \in team[t].members :
            LET r == DeleteMemberFromTeam(u, t, u)
            IN  /\ r.resp = "self_removal_error"
                /\ r.resp # "forbidden"
                /\ r.team[t].members = team[t].members
                /\ Unchanged(r)

\* a team of two or more, after a member was added: each can ask to leave
C4_Witness ==
    /\ last.op = "add_member"
    /\ \E t \in Teams, u \in Employee :
           /\ u \in team[t].members
           /\ Cardinality(team[t].members) >= 2
           /\ DeleteMemberFromTeam(u, t, u).resp = "self_removal_error"

\* C5: a member who removes another existing employee from the team: that
\* employee is no member afterwards, every other member still is, and the
\* other teams keep their members.
C5_RemoveOtherMember ==
    \A t \in Teams :
        \A u \in team[t].members :
            \A m \in Employee \ {u} :
                LET r == DeleteMemberFromTeam(u, t, m)
                IN  /\ r.resp = "ok"
                    /\ DOMAIN r.team = Teams
                    /\ m \notin r.team[t].members
                    /\ \A e \in team[t].members \ {m} : e \in r.team[t].members
                    /\ \A t2 \in Teams \ {t} : r.team[t2] = team[t2]

\* a member was just removed from a team that still has a member, beside
\* another team
C5_Witness ==
    /\ last.op = "delete_member"
    /\ \E t \in Teams, t2 \in Teams :
           /\ t # t2
           /\ team[t].members # {}
           /\ team[t].members # Employee
           /\ team[t2].members # {}

\* the outcome r deletes exactly the projects P, the tasks K and the comments C
\* and leaves every other row as it was
DeletesExactly(r, P, K, C) ==
    /\ DOMAIN r.project = Projects \ P
    /\ \A p \in Projects \ P : r.project[p] = project[p]
    /\ DOMAIN r.task = Tasks \ K
    /\ \A k \in Tasks \ K : r.task[k] = task[k]
    /\ DOMAIN r.comment = Comments \ C
    /\ \A c \in Comments \ C : r.comment[c] = comment[c]

\* C6: every project names a team that exists, every task a project that
\* exists, every comment a task that exists; deleting a team deletes its
\* projects, their tasks and the comments of those tasks, deleting a project
\* its tasks and their comments, deleting a task its comments, and nothing else
\* (the other teams keep their rows and their members).
C6_CascadeDelete ==
    /\ \A p \in Projects : project[p].team \in Teams
    /\ \A k \in Tasks : task[k].project \in Projects
    /\ \A c \in Comments : comment[c].task \in Tasks
    /\ \A u \in Employee :
        /\ \A t \in Teams :
               LET r == DeleteTeamView(u, t)
                   P == {p \in Projects : project[p].team = t}
                   K == {k \in Tasks : task[k].project \in P}
                   C == {c \in Comments : comment[c].task \in K}
               IN  r.resp = "ok" =>
                       /\ DOMAIN r.team = Teams \ {t}
                       /\ \A t2 \in Teams \ {t} : r.team[t2] = team[t2]
                       /\ DeletesExactly(r, P, K, C)
        /\ \A p \in Projects :
               LET r == DeleteProjectView(u, p)
                   K == {k \in Tasks : task[k].project = p}
                   C == {c \in Comments : comment[c].task \in K}
               IN  r.resp = "ok" => r.team = team /\ DeletesExactly(r, {p}, K, C)
        /\ \A k \in Tasks :
               LET r == DeleteTaskView(u, k)
                   C == {c \in Comments : comment[c].task = k}
               IN  r.resp = "ok" => r.team = team /\ DeletesExactly(r, {}, {k}, C)

\* a team was just deleted and took a project, a task and a comment with it
C6_Witness ==
    /\ last.op = "delete_team"
    /\ seq.project > 0 /\ seq.task > 0 /\ seq.comment > 0
    /\ Teams = {} /\ Projects = {} /\ Tasks = {} /\ Comments = {}
    /\ Allocated = MaxRows

RejectedOnDeadline(r) ==
    r.resp = "invalid" /\ "deadline" \in r.errors /\ Unchanged(r)

\* C7: a project or task form (create or update) whose deadline is today or
\* earlier is rejected with an error on the deadline field and commits
\* nothing, whatever else it carries.
C7_DeadlineMustBeFuture ==
    \A u \in Employee, name \in Names, d \in Deadlines, c \in BOOLEAN :
        d <= today =>
            /\ \A t \in TeamId :
                   /\ RejectedOnDeadline(create_project_form_view(u, name, d, c, t))
                   /\ \A pk \in Projects :
                          MemberOfProject(u, pk) =>
                              RejectedOnDeadline(UpdateProjectView(u, pk, name, d, c, t))
            /\ \A p \in ProjectId, pr \in PRIORITY_CHOICES,
                  S \in NonEmptySubsets(Employee) :
                   /\ RejectedOnDeadline(
                          create_task_form_view(u, name, d, c, pr, JoinIds(S), p))
                   /\ \A pk \in Tasks :
                          MemberOfTask(u, pk) =>
                              RejectedOnDeadline(
                                  UpdateTaskView(u, pk, name, d, c, pr, JoinIds(S), p))

\* days have passed, a project and a task are stored: forms dated yesterday and
\* today are being turned down
C7_Witness ==
    /\ today > 0
    /\ last.op = "update_task"
    /\ \E p \in Projects, k \in Tasks :
           /\ RejectedOnDeadline(UpdateProjectView(1, p, project[p].name, today, FALSE, 1))
           /\ RejectedOnDeadline(
                  UpdateTaskView(1, k, task[k].name, today - 1, FALSE, "low", Str(1), p))

RejectedUnchanged(r) == r.resp # "ok" /\ Unchanged(r)

NameUsed(table, pk, name) == \E k \in DOMAIN table : k # pk /\ table[k].name = name

\* C8: no two teams, no two projects and no two tasks carry the same name; a
\* create, or an update of another row, that asks for a name in use is refused
\* and commits nothing.
C8_UniqueNames ==
    /\ \A t1 \in Teams, t2 \in Teams : team[t1].name = team[t2].name => t1 = t2
    /\ \A p1 \in Projects, p2 \in Projects :
           project[p1].name = project[p2].name => p1 = p2
    /\ \A k1 \in Tasks, k2 \in Tasks : task[k1].name = task[k2].name => k1 = k2
    /\ \A u \in Employee, name \in Names :
        /\ \A ids \in IdsInputs :
               /\ NameUsed(team, 0, name) =>
                      RejectedUnchanged(create_team_form_view(u, name, ids))
               /\ \A pk \in Teams :
                      NameUsed(team, pk, name) =>
                          RejectedUnchanged(UpdateTeamView(u, pk, name, ids))
        /\ \A d \in DeadlinesAround, t \in TeamId :
               /\ NameUsed(project, 0, name) =>
                      RejectedUnchanged(create_project_form_view(u, name, d, FALSE, t))
               /\ \A pk \in Projects :
                      NameUsed(project, pk, name) =>
                          RejectedUnchanged(UpdateProjectView(u, pk, name, d, FALSE, t))
        /\ \A d \in DeadlinesAround, ids \in IdsInputs, p \in ProjectId :
               /\ NameUsed(task, 0, name) =>
                      RejectedUnchanged(
                          create_task_form_view(u, name, d, FALSE, "low", ids, p))
               /\ \A pk \in Tasks :
                      NameUsed(task, pk, name) =>
                          RejectedUnchanged(
                              UpdateTaskView(u, pk, name, d, FALSE, "low", ids, p))

\* two tasks are stored, the second just renamed: each name is in use and the
\* other task cannot take it
C8_Witness ==
    /\ last.op = "update_task"
    /\ Cardinality(Tasks) = 2
    /\ \E k1 \in Tasks, k2 \in Tasks, u \in Employee :
           /\ k1 # k2
           /\ MemberOfTask(u, k1)
           /\ UpdateTaskView(u, k1, task[k2].name, today + 1, FALSE, "low", Str(u),
                             task[k1].project).errors = {"name"}

\* the tokens of an id list: split on commas, trimmed, the empty ones dropped
Tokens(s) == SelectSeq(MapStrip(Split(s)), NonEmpty)

AllInts(toks) == \A i \in 1..Len(toks) : IsInt(toks[i])

Parsed(toks) == {IntVal(toks[i]) : i \in 1..Len(toks)}

\* C9: the resolver rejects a text with no token, rejects a text with a token
\* that is no integer, rejects a text naming an id no employee has, and for
\* every other text returns exactly the employees whose ids it names.
C9_ResolverContract ==
    call.op = "clean_ids_field" =>
        LET toks == Tokens(call.data_ids)
            r == call.result
        IN  IF toks = <<>> THEN ~r.ok
            ELSE IF ~AllInts(toks) THEN ~r.ok
            ELSE IF \E n \in Parsed(toks) : n \notin Employee THEN ~r.ok
            ELSE r.ok /\ r.objects = Parsed(toks)

\* C10: the count comparison fails only when some requested id names no
\* employee: a list of integers that all name employees, repeated or not,
\* resolves.
C10_CountFailureMeansUnresolved ==
    call.op = "clean_ids_field" =>
        /\ call.result.error = "invalid_ids" =>
               \E n \in Parsed(Tokens(call.data_ids)) : n \notin Employee
        /\ (/\ Tokens(call.data_ids) # <<>>
            /\ AllInts(Tokens(call.data_ids))
            /\ Parsed(Tokens(call.data_ids)) \subseteq Employee) => call.result.ok

\* the employees an id list names
Resolved(ids) == {e \in Employee : e \in Parsed(Tokens(ids))}

\* C11: a team update that succeeds leaves the team with exactly the employees
\* the submitted list names, and a task update that succeeds leaves the task
\* with exactly the employees its list names: a former member or assignee the
\* list leaves out is gone, the requester included, and the relation depends on
\* the list alone, so that the list submitted again (or the field as the form
\* prefills it from the stored relation) gives the same relation.
C11_WholesaleSet ==
    \A u \in Employee, name \in Names :
        /\ \A t \in Teams, ids \in IdsInputsWide :
               LET r == UpdateTeamView(u, t, name, ids)
               IN  r.resp = "ok" =>
                       /\ r.team[t].members = Resolved(ids)
                       /\ \A e \in team[t].members :
                              e \notin Resolved(ids) => e \notin r.team[t].members
                       /\ IdsFieldValue(JoinIds(r.team[t].members)) = r.team[t].members
        /\ \A k \in Tasks, ids \in IdsInputsWide :
               LET r == UpdateTaskView(u, k, name, today + 1, FALSE, "low", ids,
                                       task[k].project)
               IN  r.resp = "ok" =>
                       /\ r.task[k].assignees = Resolved(ids)
                       /\ \A e \in task[k].assignees :
                              e \notin Resolved(ids) => e \notin r.task[k].assignees
                       /\ IdsFieldValue(JoinIds(r.task[k].assignees)) =
                              r.task[k].assignees

\* a task was just updated, and some member of a team can submit a list that
\* drops the member and names a colleague instead
C11_Witness ==
    /\ last.op = "update_task"
    /\ \E k \in Tasks : task[k].assignees # Employee
    /\ \E t \in Teams :
           \E u \in team[t].members :
               \E v \in Employee \ {u} :
                   LET r == UpdateTeamView(u, t, team[t].name, Str(v))
                   IN  r.resp = "ok" /\ r.team[t].members = {v}

(***************************************************************************)
(* SpecAtomic: the writes that take several statements (create team,       *)
(* create task, update task), one statement at a time inside               *)
(* transaction.atomic.  call is the request in flight: its data, the       *)
(* store its connection sees after each statement (steps) and the number   *)
(* of statements done (pc).  The variables team, project, task, comment    *)
(* and seq are the committed store, the one every other request reads.     *)
(***************************************************************************)
Store ==
    [team |-> team, project |-> project, task |-> task, comment |-> comment,
     seq |-> seq]

StoreOf(r) ==
    [team |-> r.team, project |-> r.project, task |-> r.task,
     comment |-> r.comment, seq |-> r.seq]

\* CreateTeamForm.save: team.save(), then team.members.set(members)
create_team_steps(name, member_ids) ==
    LET pk == seq.team + 1
        saved == [Store EXCEPT !.team = team @@ (pk :> [name |-> name, members |-> {}]),
                               !.seq = [seq EXCEPT !.team = pk]]
    IN  <<saved, [saved EXCEPT !.team[pk].members = IdsFieldValue(member_ids)]>>

\* CreateTasksForm.save: task.project = project, task.save(), then
\* task.assignees.set(assignees)
create_task_steps(name, deadline, is_completed, priority, assignees_ids, project_choice) ==
    LET pk == seq.task + 1
        saved == [Store EXCEPT
                      !.task = task @@ (pk :> [name |-> name, deadline |-> deadline,
                                               is_completed |-> is_completed,
                                               priority |-> priority, assignees |-> {},
                                               project |-> project_choice]),
                      !.seq = [seq EXCEPT !.task = pk]]
    IN  <<saved, [saved EXCEPT !.task[pk].assignees = IdsFieldValue(assignees_ids)]>>

\* UpdateTaskView.form_valid: task.assignees.set(workers), then
\* task.project = project and task.save()
update_task_steps(pk, name, deadline, is_completed, priority, assignees_ids, project_choice) ==
    LET assigned == [Store EXCEPT !.task[pk].assignees = IdsFieldValue(assignees_ids)]
    IN  <<assigned,
          [assigned EXCEPT !.task[pk] =
               [name |-> name, deadline |-> deadline, is_completed |-> is_completed,
                priority |-> priority, assignees |-> assigned.task[pk].assignees,
                project |-> project_choice]]>>

\* the request c handled in one piece by its view
WholeOutcome(c) ==
    CASE c.op = "create_team" -> create_team_form_view(c.user, c.name, c.ids)
      [] c.op = "create_task" ->
             create_task_form_view(c.user, c.name, c.deadline, c.is_completed,
                                   c.priority, c.ids, c.target)
      [] c.op = "update_task" ->
             UpdateTaskView(c.user, c.pk, c.name, c.deadline, c.is_completed,
                            c.priority, c.ids, c.target)

StepsOf(c) ==
    CASE c.op = "create_team" -> create_team_steps(c.name, c.ids)
      [] c.op = "create_task" ->
             create_task_steps(c.name, c.deadline, c.is_completed, c.priority,
                               c.ids, c.target)
      [] c.op = "update_task" ->
             update_task_steps(c.pk, c.name, c.deadline, c.is_completed, c.priority,
                               c.ids, c.target)

Atomic_autocommit(committed, working) == working

\* @transaction.atomic: until the block is left the other connections see
\* the store as it was committed
Atomic(committed, working) == committed

\* the requests the multi-statement views may receive
AtomicRequests ==
    {[op |-> o, user |-> u, pk |-> k, name |-> n, deadline |-> today + 1,
      is_completed |-> (o = "update_task"), priority |-> "low", ids |-> i,
      target |-> p] :
         o \in {"create_team", "create_task", "update_task"}, u \in Employee,
         k \in TaskId, n \in Names, i \in IdsInputs, p \in ProjectId}

\* the form is valid and the view enters its write
TxBegin(c) ==
    /\ call = NoCall
    /\ c.op = "create_team" => seq.team < MaxTeams /\ Allocated < MaxRows
    /\ c.op = "create_task" => seq.task < MaxTasks /\ Allocated < MaxRows
    /\ c.op # "update_task" => c.pk = 1
    /\ c.op = "create_team" => c.target = 1
    /\ WholeOutcome(c).resp = "ok"
    /\ call' = c @@ [pc |-> 0, steps |-> StepsOf(c)]
    /\ UNCHANGED <<db, today, last, reg>>

\* one more statement of the write
TxStep ==
    /\ call # NoCall
    /\ call.pc < Len(call.steps)
    /\ call' = [call EXCEPT !.pc = @ + 1]
    /\ LET seen == Atomic(Store, call.steps[call.pc + 1])
       IN  /\ team' = seen.team
           /\ project' = seen.project
           /\ task' = seen.task
           /\ comment' = seen.comment
           /\ seq' = seen.seq
    /\ UNCHANGED <<today, last, reg>>

\* the block is left without an exception: the write is committed
TxCommit ==
    /\ call # NoCall
    /\ call.pc = Len(call.steps)
    /\ LET done == call.steps[call.pc]
       IN  /\ team' = done.team
           /\ project' = done.project
           /\ task' = done.task
           /\ comment' = done.comment
           /\ seq' = done.seq
    /\ last' = [op |-> call.op, user |-> call.user]
    /\ call' = NoCall
    /\ UNCHANGED <<today, reg>>

\* a statement raises (the database refuses it, full_clean in save() fails):
\* the block is left with the exception and what it wrote is rolled back
TxRollback ==
    /\ call # NoCall
    /\ call.pc < Len(call.steps)
    /\ call' = NoCall
    /\ UNCHANGED <<db, today, last, reg>>

NextAtomic ==
    \/ \E c \in AtomicRequests : TxBegin(c)
    \/ TxStep
    \/ TxCommit
    \/ TxRollback

\* employee 1 has created a team of all the employees and a project in it
InitAtomic ==
    /\ team = (1 :> [name |-> "a", members |-> Employee])
    /\ project = (1 :> [name |-> "a", deadline |-> 2, is_completed |-> FALSE,
                        team |-> 1])
    /\ task = <<>>
    /\ comment = <<>>
    /\ seq = [team |-> 1, project |-> 1, task |-> 0, comment |-> 0]
    /\ last = [op |-> "create_project", user |-> 1]
    /\ today = 1
    /\ call = NoCall
    /\ position = {}
    /\ account = <<>>

SpecAtomic == InitAtomic /\ [][NextAtomic]_vars

\* C12: the committed store changes only by a whole write: each change of the
\* store is the commit of the request in flight and equals what its view
\* does in one piece, so that no committed store holds a team saved without
\* its members, a task saved without its assignees, or a task whose
\* assignees were replaced while its other fields were not.
C12_AllOrNothing ==
    /\ [](\A t \in Teams : team[t].members # {})
    /\ [](\A k \in Tasks : task[k].assignees # {})
    /\ [][<<team', project', task', comment', seq'>> # db =>
              /\ call # NoCall
              /\ call.pc = Len(call.steps)
              /\ Store' = StoreOf(WholeOutcome(call))]_vars

\* a task update is half done: its connection sees the new assignees, the
\* committed store still has the old ones
C12_Witness ==
    /\ call # NoCall
    /\ call.op = "update_task"
    /\ call.pc = 1
    /\ call.pk \in Tasks
    /\ call.steps[1].task[call.pk].assignees # task[call.pk].assignees

(***************************************************************************)
(* SpecRegister: the sign-up route.  position is the set of the names of   *)
(* the Position rows, account maps the usernames registered to their       *)
(* Employee rows.                                                          *)
(***************************************************************************)
Usernames == {"", "ann", "bob", "cy"}

PositionNames == {"", "dev", "qa", "pm"}

Passwords == {"", "pw1", "pw2"}

\* RegistrationForm.clean_position, run by is_valid() whenever the field is
\* filled: Position.objects.get_or_create(name=position_name)
clean_position(position_name) ==
    IF position_name = "" THEN position ELSE position \cup {position_name}

\* the fields UserCreationForm and the position field reject
RegistrationFormErrors(username, position_name, password1, password2) ==
    (IF username = "" \/ username \in DOMAIN account THEN {"username"} ELSE {})
        \cup (IF position_name = "" THEN {"position"} ELSE {})
        \cup (IF password1 = "" THEN {"password1"} ELSE {})
        \cup (IF password2 = "" \/ password2 # password1 THEN {"password2"} ELSE {})

\* sign_up (POST): the outcome and the Position and Employee rows committed;
\* the view returns the form page for an invalid form, so that the atomic
\* block is left normally and what is_valid() wrote is committed
sign_up(username, position_name, password1, password2) ==
    LET errs == RegistrationFormErrors(username, position_name, password1, password2)
    IN  IF errs # {}
        THEN [resp |-> "invalid", errors |-> errs,
              position |-> clean_position(position_name), account |-> account]
        ELSE [resp |-> "ok", errors |-> {},
              position |-> clean_position(position_name),
              account |-> account @@ (username :> [position |-> position_name])]

SignUp(username, position_name, password1, password2) ==
    LET r == sign_up(username, position_name, password1, password2)
    IN  /\ position' = r.position
        /\ account' = r.account
        /\ last' = IF r.resp = "ok" THEN [op |-> "sign_up", user |-> 0] ELSE last
        /\ UNCHANGED <<db, today, call>>

NextRegister ==
    \E username \in Usernames, position_name \in PositionNames,
       password1 \in Passwords, password2 \in Passwords :
        SignUp(username, position_name, password1, password2)

SpecRegister == Init /\ [][NextRegister]_vars

\* C13: a request that ends in an error commits nothing: the sign-up whose
\* form is rejected leaves the Position and Employee rows as they were, and
\* so does every refused request of the team, project, task and comment
\* routes with the rows of their tables.
C13_ErrorsChangeNothing ==
    /\ \A username \in Usernames, position_name \in PositionNames,
          password1 \in Passwords, password2 \in Passwords :
           LET r == sign_up(username, position_name, password1, password2)
           IN  r.resp # "ok" => r.position = position /\ r.account = account
    /\ \A u \in Employee, name \in Names \cup {""}, ids \in IdsInputsWide :
           /\ LET r == create_team_form_view(u, name, ids)
              IN  r.resp # "ok" => Unchanged(r)
           /\ \A pk \in TeamId :
                  /\ LET r == UpdateTeamView(u, pk, name, ids)
                     IN  r.resp # "ok" => Unchanged(r)
                  /\ LET r == DeleteTeamView(u, pk)
                     IN  r.resp # "ok" => Unchanged(r)
                  /\ \A e \in EmployeeIdInputs :
                         /\ LET r == AddNewMemberToTeam(u, pk, e)
                            IN  r.resp # "ok" => Unchanged(r)
                         /\ LET r == DeleteMemberFromTeam(u, pk, e)
                            IN  r.resp # "ok" => Unchanged(r)
           /\ \A d \in DeadlinesAround, t \in TeamId :
                  LET r == create_project_form_view(u, name, d, FALSE, t)
                  IN  r.resp # "ok" => Unchanged(r)
           /\ \A d \in DeadlinesAround, p \in ProjectId :
                  LET r == create_task_form_view(u, name, d, FALSE, "low", ids, p)
                  IN  r.resp # "ok" => Unchanged(r)
           /\ \A k \in TaskId :
                  LET r == task_details_page_view_post(u, k, "")
                  IN  r.resp # "ok" => Unchanged(r)

(***************************************************************************)
(* The list pages.  Each gives the rows its queryset selects (items), as   *)
(* a set of primary keys; none writes to the store.                        *)
(***************************************************************************)
STATUS_CHOICES == {"all", "active", "completed"}

\* TaskFilterForm: PRIORITY_CHOICES.insert(0, ("all", "All priorities"))
FilterPriorities == {"all"} \cup PRIORITY_CHOICES

\* the value "all" of the team field
AllTeams == <<"a", "l", "l">>

Listing(items) == Reject("list", {}) @@ [items |-> items]

\* queryset.filter(is_completed=...) for a valid status; "" is a field left out
ByStatus(table, rows, status) ==
    IF status = "completed" THEN {r \in rows : table[r].is_completed}
    ELSE IF status = "active" THEN {r \in rows : ~table[r].is_completed}
    ELSE rows

\* get_profile: employee.tasks.filter(is_completed=False), with the counts of
\* the employee's tasks and of the projects of the employee's teams
get_profile(u) ==
    LET mine == {k \in Tasks : u \in task[k].assignees}
    IN  Listing({k \in mine : ~task[k].is_completed})
            @@ [active_tasks |-> Cardinality({k \in mine : ~task[k].is_completed}),
                finished_tasks |-> Cardinality({k \in mine : task[k].is_completed}),
                active_projects |->
                    Cardinality({p \in ProjectsOf(u) : ~project[p].is_completed}),
                finished_projects |->
                    Cardinality({p \in ProjectsOf(u) : project[p].is_completed})]

\* projects_page_view: Project.objects.filter(team__in=employee.teams.all())
\* narrowed by StatusFilterForm when the form is valid
projects_page_view(u, status) ==
    LET employee_projects == {p \in Projects : project[p].team \in TeamsOf(u)}
    IN  IF status \in STATUS_CHOICES \cup {""}
        THEN Listing(ByStatus(project, employee_projects, status))
        ELSE Listing(employee_projects)

\* teams_page_view: employee.teams.all()
teams_page_view(u) == Listing(TeamsOf(u))

\* TaskFilterForm.is_valid(): each field is optional and, when filled, must
\* be one of its choices; the team choices are "all" and the requester's teams
TaskFilterValid(u, status, priority, team_value) ==
    /\ status \in STATUS_CHOICES \cup {""}
    /\ priority \in FilterPriorities \cup {""}
    /\ \/ team_value \in {<<>>, AllTeams}
       \/ \E t \in TeamsOf(u) : Str(t) = team_value

\* tasks_page_view: Task.objects.filter(project__team__members=employee)
\* narrowed by the three filters when the form is valid
tasks_page_view(u, status, priority, team_value) ==
    LET employee_tasks == {k \in Tasks : project[task[k].project].team \in TeamsOf(u)}
        by_status == ByStatus(task, employee_tasks, status)
        by_priority == IF priority # "" /\ priority # "all"
                       THEN {k \in by_status : task[k].priority = priority}
                       ELSE by_status
        by_team == IF team_value # <<>> /\ team_value # AllTeams
                   THEN {k \in by_priority :
                             project[task[k].project].team = IntVal(team_value)}
                   ELSE by_priority
    IN  IF TaskFilterValid(u, status, priority, team_value)
        THEN Listing(by_team)
        ELSE Listing(employee_tasks)

Profile(u) == Apply("profile", u, get_profile(u))

ProjectsPage(u, status) == Apply("projects", u, projects_page_view(u, status))

TeamsPage(u) == Apply("teams", u, teams_page_view(u))

TasksPage(u, status, priority, team_value) ==
    Apply("tasks", u, tasks_page_view(u, status, priority, team_value))

\* the values a filter field may carry: left out, each choice, something else
StatusInputs == STATUS_CHOICES \cup {"", "done"}

PriorityInputs == {"", "all", "high", "low", "U"}

TeamInputs == {<<>>, AllTeams, <<"x">>} \cup {Str(t) : t \in 1..(MaxTeams + 1)}

(***************************************************************************)
(* SpecLists: the list pages over stores of two teams, employee 1 in both  *)
(* and employee 2 in the second only (employee 1 created both), with       *)
(* projects and tasks of either status and two priorities.                 *)
(***************************************************************************)
InitLists ==
    /\ team = (1 :> [name |-> "a", members |-> {1}])
                  @@ (2 :> [name |-> "b", members |-> Employee])
    /\ project = <<>>
    /\ task = <<>>
    /\ comment = <<>>
    /\ seq = [team |-> 2, project |-> 0, task |-> 0, comment |-> 0]
    /\ last = [op |-> "create_team", user |-> 1]
    /\ today = 1
    /\ call = NoCall
    /\ position = {}
    /\ account = <<>>

NextLists ==
    \/ \E name \in Names, c \in BOOLEAN, t \in TeamId :
           /\ seq.project < MaxProjects
           /\ Apply("create_project", 1,
                    create_project_form_view(1, name, today + 1, c, t))
    \/ \E name \in Names, c \in BOOLEAN, pr \in {"high", "low"},
          ids \in IdsInputs, p \in ProjectId :
           /\ seq.task < MaxTasks
           /\ Apply("create_task", 1,
                    create_task_form_view(1, name, today + 1, c, pr, ids, p))
    \/ \E u \in Employee : Profile(u)
    \/ \E u \in Employee, status \in {"", "active"} : ProjectsPage(u, status)
    \/ \E u \in Employee : TeamsPage(u)
    \/ \E u \in Employee, status \in {"", "active"}, priority \in {"", "high"},
          team_value \in {<<>>, Str(1), Str(2)} :
           TasksPage(u, status, priority, team_value)

SpecLists == InitLists /\ [][NextLists]_vars

\* C14: the profile, projects, teams and tasks pages list to the requester
\* only rows of teams the requester is a member of.
C14_ListsScopedToOwnTeams ==
    \A u \in Employee :
        /\ \A k \in get_profile(u).items : MemberOfTask(u, k)
        /\ \A status \in StatusInputs :
               \A p \in projects_page_view(u, status).items : MemberOfProject(u, p)
        /\ \A t \in teams_page_view(u).items : u \in team[t].members
        /\ \A status \in StatusInputs, priority \in PriorityInputs,
              team_value \in TeamInputs :
               \A k \in tasks_page_view(u, status, priority, team_value).items :
                   MemberOfTask(u, k)

\* the tasks of the requester's teams
TeamScoped(u) == {k \in Tasks : MemberOfTask(u, k)}

StatusKeeps(k, status) ==
    CASE status = "active" -> ~task[k].is_completed
      [] status = "completed" -> task[k].is_completed
      [] OTHER -> TRUE

PriorityKeeps(k, priority) ==
    IF priority \in PRIORITY_CHOICES THEN task[k].priority = priority ELSE TRUE

\* C15: the tasks page lists the requester's team-scoped tasks that pass the
\* three filters together: status active or completed keeps the tasks not
\* completed or completed, priority urgent, high, medium or low keeps the
\* tasks of that priority, a team of the requester keeps the tasks of that
\* team, and "all" or a field left out keeps everything; a team the
\* requester does not belong to is not accepted as a filter (it narrows
\* nothing or matches nothing) and never brings a task of that team in.
C15_TaskFilters ==
    \A u \in Employee, status \in STATUS_CHOICES \cup {""},
       priority \in FilterPriorities \cup {""},
       team_value \in {<<>>, AllTeams} \cup {Str(t) : t \in Teams} :
        LET items == tasks_page_view(u, status, priority, team_value).items
            kept == {k \in TeamScoped(u) :
                         StatusKeeps(k, status) /\ PriorityKeeps(k, priority)}
            own == \E t \in TeamsOf(u) : Str(t) = team_value
        IN  /\ items \subseteq TeamScoped(u)
            /\ IF team_value \in {<<>>, AllTeams} THEN items = kept
               ELSE IF own
               THEN items = {k \in kept :
                                 Str(project[task[k].project].team) = team_value}
               ELSE items = kept \/ items = {}

(***************************************************************************)
(* pagination: Paginator(queryset, items_per_page).get_page(page_number),  *)
(* page_number being the text of the page parameter (given) or None.       *)
(***************************************************************************)
MaxItems == 9
MaxPageLen == 2

\* items_per_page of team details, profile, tasks, and the other lists
PageSizes == {4, 5, 6, 8}

\* Paginator.num_pages: an empty list has one (empty) page
num_pages(count, per_page) ==
    IF count = 0 THEN 1 ELSE (count + per_page - 1) \div per_page

\* Paginator.validate_number
validate_number(given, text, pages) ==
    IF ~given \/ ~ParseInt(text).ok THEN [raised |-> "PageNotAnInteger", number |-> 0]
    ELSE IF ParseInt(text).value < 1 \/ ParseInt(text).value > pages
         THEN [raised |-> "EmptyPage", number |-> ParseInt(text).value]
         ELSE [raised |-> "", number |-> ParseInt(text).value]

get_page_unchecked(given, text, pages) == validate_number(given, text, pages).number

\* Paginator.get_page: the first page for no integer, the last for an
\* integer out of range
get_page(given, text, pages) ==
    LET v == validate_number(given, text, pages)
    IN  IF v.raised = "PageNotAnInteger" THEN 1
        ELSE IF v.raised = "EmptyPage" THEN pages
        ELSE v.number

\* pagination(request, queryset, items_per_page): Paginator.page of the
\* number get_page settled on
pagination(given, text, object_list, items_per_page) ==
    LET count == Len(object_list)
        pages == num_pages(count, items_per_page)
        number == get_page(given, text, pages)
        bottom == (number - 1) * items_per_page
        top == IF bottom + items_per_page >= count THEN count
               ELSE bottom + items_per_page
    IN  IF number < 1 \/ number > pages
        THEN [resp |-> "error", number |-> number, object_list |-> <<>>,
              num_pages |-> pages]
        ELSE [resp |-> "page", number |-> number,
              object_list |-> SubSeq(object_list, bottom + 1, top),
              num_pages |-> pages]

PageAlphabet == {"-", "0", "1", "2", "3", "9", "x", " "}

PageTexts == UNION {[1..n -> PageAlphabet] : n \in 0..MaxPageLen}

(***************************************************************************)
(* SpecPage: one list of up to MaxItems rows paginated with each page      *)
(* size, for every short page parameter and for none.                      *)
(***************************************************************************)
InitPage ==
    /\ EmptyStore
    /\ today = 1
    /\ call \in {[op |-> "page_input", given |-> g, page |-> s, count |-> n,
                  items_per_page |-> pp] :
                     g \in BOOLEAN, s \in PageTexts, n \in 0..MaxItems,
                     pp \in PageSizes}
    /\ call.given \/ call.page = <<>>

Paginate ==
    /\ call.op = "page_input"
    /\ call' = [op |-> "pagination", given |-> call.given, page |-> call.page,
                count |-> call.count, items_per_page |-> call.items_per_page,
                result |-> pagination(call.given, call.page,
                                      [i \in 1..call.count |-> i],
                                      call.items_per_page)]
    /\ UNCHANGED <<db, today, last, reg>>

SpecPage == InitPage /\ [][Paginate]_vars

\* the number of the last page of count rows, per_page to a page
LastPage(count, per_page) ==
    CHOOSE n \in 1..(count + 1) :
        /\ n * per_page >= count
        /\ n = 1 \/ (n - 1) * per_page < count

\* C16: pagination always answers with a page, never with an error: page n
\* holds the rows (n-1)*size+1 .. n*size of the list (fewer on the last
\* page), a page number within range gives that page, one beyond the last
\* page gives the last page, and one below 1, missing or not an integer
\* gives the first or the last page.
C16_PaginationClamps ==
    call.op = "pagination" =>
        LET r == call.result
            size == call.items_per_page
            final == LastPage(call.count, size)
            asked == ParseInt(call.page)
            first_row == (r.number - 1) * size + 1
            last_row == IF r.number * size < call.count THEN r.number * size
                        ELSE call.count
        IN  /\ r.resp = "page"
            /\ r.number \in 1..final
            /\ r.object_list = [i \in 1..(last_row - first_row + 1) |-> first_row + i - 1]
            /\ Len(r.object_list) <= size
            /\ IF call.given /\ asked.ok /\ asked.value \in 1..final
               THEN r.number = asked.value
               ELSE IF call.given /\ asked.ok /\ asked.value > final
               THEN r.number = final
               ELSE r.number \in {1, final}

\* the page parameter was 9 (or 3, or 12, ...) on a list of more than one
\* page: the last page came back
C16_Witness ==
    /\ call.op = "pagination"
    /\ call.given
    /\ ParseInt(call.page).ok
    /\ call.result.num_pages >= 2
    /\ ParseInt(call.page).value > call.result.num_pages
    /\ call.result.number = call.result.num_pages
    /\ call.result.object_list # <<>>

NotFound(r) == r.resp = "not_found" /\ Unchanged(r)

\* C17: a request to a detail, update, delete, add-member or delete-member
\* route that names a team, project or task that does not exist is answered
\* not-found, whoever asks, and commits nothing; it never ends in an
\* unhandled error.
C17_MissingIdIsNotFound ==
    \A u \in Employee, name \in Names, ids \in IdsInputs :
        /\ \A pk \in TeamId \ Teams :
               /\ NotFound(team_details_page_view(u, pk))
               /\ NotFound(UpdateTeamView(u, pk, name, ids))
               /\ NotFound(DeleteTeamView(u, pk))
               /\ \A e \in EmployeeIdInputs :
                      /\ NotFound(AddNewMemberToTeam(u, pk, e))
                      /\ NotFound(DeleteMemberFromTeam(u, pk, e))
        /\ \A pk \in ProjectId \ Projects :
               /\ NotFound(project_details_page_view(u, pk))
               /\ \A t \in TeamId :
                      NotFound(UpdateProjectView(u, pk, name, today + 1, FALSE, t))
               /\ NotFound(DeleteProjectView(u, pk))
        /\ \A pk \in TaskId \ Tasks :
               /\ NotFound(task_details_page_view(u, pk))
               /\ NotFound(task_details_page_view_post(u, pk, "text"))
               /\ \A p \in ProjectId :
                      NotFound(UpdateTaskView(u, pk, name, today + 1, FALSE, "low",
                                              ids, p))
               /\ NotFound(DeleteTaskView(u, pk))

(***************************************************************************)
(* SpecPriority: task forms carrying every priority value, on a store      *)
(* with one team of all the employees and one project (employee 1 created  *)
(* both).                                                                  *)
(***************************************************************************)
\* the four choices, the model default "U", the filter's "all", "" for none
TaskPriorityInputs == PRIORITY_CHOICES \cup {"U", "all", ""}

NextPriority ==
    \/ \E name \in Names, c \in BOOLEAN, pr \in TaskPriorityInputs :
           CreateTask(1, name, today + 1, c, pr, Str(1), 1)
    \/ \E pk \in TaskId, name \in Names, c \in BOOLEAN, pr \in TaskPriorityInputs :
           UpdateTask(1, pk, name, today + 1, c, pr, Str(1), 1)

SpecPriority == InitAtomic /\ [][NextPriority]_vars

\* C18: every stored task has one of the priorities urgent, high, medium,
\* low; a task form whose priority is "U", "all" or missing is rejected on
\* the priority field and commits nothing, on create and on update.
C18_StoredPriorityIsAChoice ==
    /\ \A k \in Tasks : task[k].priority \in {"urgent", "high", "medium", "low"}
    /\ \A u \in Employee, name \in Names, pr \in {"U", "all", ""} :
           /\ LET r == create_task_form_view(u, name, today + 1, FALSE, pr, Str(u), 1)
              IN  r.resp = "invalid" /\ "priority" \in r.errors /\ Unchanged(r)
           /\ \A k \in Tasks :
                  LET r == UpdateTaskView(u, k, name, today + 1, FALSE, pr, Str(u), 1)
                  IN  r.resp = "invalid" /\ "priority" \in r.errors /\ Unchanged(r)

\* two tasks are stored, the second just updated to another priority, and a
\* form with the model default is being turned down
C18_Witness ==
    /\ last.op = "update_task"
    /\ Cardinality(Tasks) = 2
    /\ \E k1 \in Tasks, k2 \in Tasks : task[k1].priority # task[k2].priority
    /\ \E k \in Tasks :
           UpdateTaskView(1, k, task[k].name, today + 1, FALSE, "U", Str(1), 1).errors
               = {"priority"}

RejectedOnEmployeeId(r) ==
    r.resp = "invalid" /\ "employee_id" \in r.errors /\ Unchanged(r)

\* C19: add-member asked by a member of the team is rejected with a
\* validation error, the members unchanged, when the employee id is the
\* requester's own, empty or 0, already a member, or no employee's id;
\* otherwise the team's members become the former members plus that
\* employee and nothing else changes, no other team's members in particular.
C19_AddMember ==
    \A t \in Teams :
        \A u \in team[t].members :
            /\ \A e \in (0 - 1)..(NumEmployees + 1) :
                   LET r == AddNewMemberToTeam(u, t, e)
                   IN  IF e = u \/ e = 0 \/ e \in team[t].members \/ e \notin Employee
                       THEN RejectedOnEmployeeId(r)
                       ELSE /\ r.resp = "ok"
                            /\ DOMAIN r.team = Teams
                            /\ r.team[t] = [name |-> team[t].name,
                                            members |-> team[t].members \cup {e}]
                            /\ \A t2 \in Teams \ {t} : r.team[t2] = team[t2]
                            /\ r.project = project /\ r.task = task
                            /\ r.comment = comment
            /\ \A text \in EmployeeIdTexts :
                   LET r == AddNewMemberToTeam_post(u, t, text)
                   IN  IF ParseInt(text).ok
                       THEN r = AddNewMemberToTeam(u, t, ParseInt(text).value)
                       ELSE RejectedOnEmployeeId(r)

\* a member was just added, beside a team that an employee can still join:
\* the first team turns its members down as already in, the second takes one
C19_Witness ==
    /\ last.op = "add_member"
    /\ \E t \in Teams, t2 \in Teams, e \in Employee :
           /\ t # t2
           /\ team[t].members = Employee
           /\ e \notin team[t2].members
           /\ \E u \in team[t2].members :
                  /\ AddNewMemberToTeam(u, t2, e).resp = "ok"
                  /\ AddNewMemberToTeam(u, t, e).errors = {"employee_id"}

(***************************************************************************)
(* SpecConcurrent: the guarded team views served by several workers at     *)
(* once.  A request is handled in two steps, each reading the committed    *)
(* store of its moment: dispatch() fetches the team and tests membership,  *)
(* then the handler (post, form_valid, delete), the only part inside       *)
(* transaction.atomic, fetches again and writes.  call maps each worker    *)
(* to the request it has dispatched, or to NoCall.                         *)
(***************************************************************************)
NumWorkers == 2

Worker == 1..NumWorkers

\* dispatch() of the guarded team views
dispatch(u, pk) ==
    IF pk \notin Teams THEN "not_found"
    ELSE IF ~IsMember(u, pk) THEN "forbidden"
    ELSE "pass"

\* DeleteMemberFromTeam.post
DeleteMemberFromTeam_handler(u, team_pk, member_pk) ==
    IF team_pk \notin Teams \/ member_pk \notin Employee THEN Reject("not_found", {})
    ELSE IF IsSelf(member_pk, u) THEN Reject("self_removal_error", {})
    ELSE Commit([team EXCEPT ![team_pk].members = RemoveMember(@, member_pk)],
                project, task, comment, seq)

\* AddNewMemberToTeam: form.is_valid() (clean_employee_id fetches the team
\* with Team.objects.get) and form_valid
AddNewMemberToTeam_handler(u, pk, employee_id) ==
    IF pk \notin Teams THEN Reject("error", {})
    ELSE IF AddMemberFormErrors(u, pk, employee_id) # {}
    THEN Reject("invalid", AddMemberFormErrors(u, pk, employee_id))
    ELSE Commit([team EXCEPT ![pk].members = @ \cup {employee_id}],
                project, task, comment, seq)

\* DeleteTeamView.delete
DeleteTeamView_handler(u, pk) ==
    IF pk \notin Teams THEN Reject("not_found", {}) ELSE Delete({pk}, {}, {}, {})

HandlerOutcome(c) ==
    CASE c.op = "delete_member" -> DeleteMemberFromTeam_handler(c.user, c.pk, c.arg)
      [] c.op = "add_member" -> AddNewMemberToTeam_handler(c.user, c.pk, c.arg)
      [] c.op = "delete_team" -> DeleteTeamView_handler(c.user, c.pk)

\* worker w takes a request and runs its dispatch(); a request that does
\* not pass is answered at once
Dispatch(w, op, u, pk, arg) ==
    /\ call[w] = NoCall
    /\ call' = IF dispatch(u, pk) = "pass"
               THEN [call EXCEPT ![w] = [op |-> op, user |-> u, pk |-> pk, arg |-> arg]]
               ELSE call
    /\ UNCHANGED <<db, today, last, reg>>

\* worker w runs the handler of the request it dispatched
Handle(w) ==
    /\ call[w] # NoCall
    /\ LET r == HandlerOutcome(call[w])
       IN  /\ team' = r.team
           /\ project' = r.project
           /\ task' = r.task
           /\ comment' = r.comment
           /\ seq' = r.seq
           /\ last' = IF r.resp = "ok" THEN [op |-> call[w].op, user |-> call[w].user]
                      ELSE last
    /\ call' = [call EXCEPT ![w] = NoCall]
    /\ UNCHANGED <<today, reg>>

\* employee 1 has created two teams of all the employees
InitConcurrent ==
    /\ team = (1 :> [name |-> "a", members |-> Employee])
                  @@ (2 :> [name |-> "b", members |-> Employee])
    /\ project = <<>>
    /\ task = <<>>
    /\ comment = <<>>
    /\ seq = [team |-> 2, project |-> 0, task |-> 0, comment |-> 0]
    /\ last = [op |-> "create_team", user |-> 1]
    /\ today = 1
    /\ call = [w \in Worker |-> NoCall]
    /\ position = {}
    /\ account = <<>>

NextConcurrent ==
    \/ \E w \in Worker, op \in {"delete_member", "add_member", "delete_team"},
          u \in Employee, pk \in TeamId, arg \in Employee :
           Dispatch(w, op, u, pk, arg)
    \/ \E w \in Worker : Handle(w)

SpecConcurrent == InitConcurrent /\ [][NextConcurrent]_vars

\* C20: whatever the interleaving of the requests, a write to a team is
\* committed only for a requester who is a member of that team when the
\* write is applied; two members removing each other at the same time do
\* not both succeed, so that no team is left without a member.
C20_WriterIsMemberAtWrite ==
    /\ [](\A t \in Teams : team[t].members # {})
    /\ [][<<team', project', task', comment', seq'>> # db =>
              \E w \in Worker :
                  /\ call[w] # NoCall
                  /\ call'[w] = NoCall
                  /\ call[w].pk \in Teams
                  /\ call[w].user \in team[call[w].pk].members]_vars

(***************************************************************************)
(* SpecMembers: the team routes and the task forms with malformed id       *)
(* lists, from the empty store; projects are made with valid data so that  *)
(* tasks have a place.                                                     *)
(***************************************************************************)
NextMembers ==
    \/ NextTeam
    \/ \E u \in Employee, t \in TeamId : CreateProject(u, "a", today + 1, FALSE, t)
    \/ \E u \in Employee, ids \in IdsInputsWide, p \in ProjectId :
           CreateTask(u, "a", today + 1, FALSE, "low", ids, p)
    \/ \E u \in Employee, pk \in TaskId, ids \in IdsInputsWide, p \in ProjectId :
           UpdateTask(u, pk, "a", today + 1, FALSE, "low", ids, p)

SpecMembers == Init /\ [][NextMembers]_vars

\* C21: whatever requests have been handled, one after the other, every
\* stored team has at least one member and every stored task has at least one
\* assignee.
C21_NeverEmpty ==
    /\ \A t \in Teams : team[t].members # {}
    /\ \A k \in Tasks : task[k].assignees # {}

\* a member has just removed the other one and stays alone in the team, a task
\* is stored, and the forms that would empty the team or the task are being
\* turned down
C21_Witness ==
    /\ last.op = "delete_member"
    /\ \E t \in Teams, k \in Tasks :
           /\ team[t].members = {last.user}
           /\ project[task[k].project].team = t
           /\ DeleteMemberFromTeam(last.user, t, last.user).resp = "self_removal_error"
           /\ UpdateTeamView(last.user, t, team[t].name, <<" ">>).errors = {"member_ids"}
           /\ UpdateTaskView(last.user, k, task[k].name, today + 1, FALSE, "low", <<>>,
                             task[k].project).errors = {"assignees_ids"}

\* the outcome r turns the request down on the field and commits nothing
RejectedOnChoice(r, field) ==
    r.resp = "invalid" /\ field \in r.errors /\ Unchanged(r)

\* in the store r commits, project p belongs to a team with member u
PlacedWith(r, u, p) ==
    /\ p \in DOMAIN r.project
    /\ r.project[p].team \in DOMAIN r.team
    /\ u \in r.team[r.project[p].team].members

\* C22: a project form that succeeds (create or update) leaves the project in
\* a team the requester belongs to, and a task form that succeeds leaves the
\* task in a project of such a team; a form that names a team, or a project of
\* a team, the requester does not belong to is turned down and commits nothing.
C22_PlacedInOwnTeams ==
    \A u \in Employee, name \in Names, d \in DeadlinesAround :
        /\ \A t \in TeamId :
               LET new == create_project_form_view(u, name, d, FALSE, t)
               IN  /\ new.resp = "ok" =>
                          /\ t \in TeamsOf(u)
                          /\ PlacedWith(new, u, seq.project + 1)
                   /\ t \notin TeamsOf(u) => RejectedOnChoice(new, "teams_choice")
                   /\ \A pk \in Projects :
                          LET upd == UpdateProjectView(u, pk, name, d, FALSE, t)
                          IN  /\ upd.resp = "ok" =>
                                     /\ t \in TeamsOf(u)
                                     /\ upd.project[pk].team = t
                                     /\ PlacedWith(upd, u, pk)
                              /\ t \notin TeamsOf(u) =>
                                     /\ upd.resp # "ok"
                                     /\ Unchanged(upd)
                                     /\ MemberOfProject(u, pk) =>
                                            RejectedOnChoice(upd, "teams_choice")
        /\ \A p \in ProjectId, ids \in IdsInputs :
               LET new == create_task_form_view(u, name, d, FALSE, "low", ids, p)
               IN  /\ new.resp = "ok" =>
                          /\ p \in ProjectsOf(u)
                          /\ new.task[seq.task + 1].project = p
                          /\ PlacedWith(new, u, p)
                   /\ p \notin ProjectsOf(u) => RejectedOnChoice(new, "project_choice")
                   /\ \A pk \in Tasks :
                          LET upd == UpdateTaskView(u, pk, name, d, FALSE, "low", ids, p)
                          IN  /\ upd.resp = "ok" =>
                                     /\ p \in ProjectsOf(u)
                                     /\ upd.task[pk].project = p
                                     /\ PlacedWith(upd, u, p)
                              /\ p \notin ProjectsOf(u) =>
                                     /\ upd.resp # "ok"
                                     /\ Unchanged(upd)
                                     /\ MemberOfTask(u, pk) =>
                                            RejectedOnChoice(upd, "project_choice")

\* an employee of one team only has just updated a project of that team; the
\* other team, which the employee is not in, holds a project too: moving the
\* first project there and creating a task there are both turned down
C22_Witness ==
    /\ last.op = "update_project"
    /\ \E p \in Projects, q \in Projects :
           LET u == last.user
               t == project[p].team
               o == project[q].team
           IN  /\ t # o
               /\ u \in team[t].members
               /\ u \notin team[o].members
               /\ UpdateProjectView(u, p, project[p].name, today + 1, FALSE, t).resp = "ok"
               /\ RejectedOnChoice(
                      UpdateProjectView(u, p, project[p].name, today + 1, FALSE, o),
                      "teams_choice")
               /\ RejectedOnChoice(
                      create_task_form_view(u, "a", today + 1, FALSE, "low", Str(u), q),
                      "project_choice")

\* the stored deadline of the row has been reached
Overdue(row) == row.deadline <= today

\* an update of an overdue project or task that keeps the stored deadline is
\* turned down on the deadline, whatever else it carries, and an update that
\* goes through carries a deadline after today
OverdueUpdatesRejected ==
    \A u \in Employee, name \in Names, c \in BOOLEAN :
        /\ \A pk \in Projects, t \in TeamId :
               Overdue(project[pk]) /\ MemberOfProject(u, pk) =>
                   /\ RejectedOnDeadline(
                          UpdateProjectView(u, pk, name, project[pk].deadline, c, t))
                   /\ \A d \in Deadlines :
                          UpdateProjectView(u, pk, name, d, c, t).resp = "ok" => d > today
        /\ \A pk \in Tasks, p \in ProjectId, S \in NonEmptySubsets(Employee) :
               Overdue(task[pk]) /\ MemberOfTask(u, pk) =>
                   /\ RejectedOnDeadline(
                          UpdateTaskView(u, pk, name, task[pk].deadline, c, "low",
                                         JoinIds(S), p))
                   /\ \A d \in Deadlines :
                          UpdateTaskView(u, pk, name, d, c, "low", JoinIds(S), p).resp = "ok"
                              => d > today

\* a step that changes an overdue row leaves it with a deadline after today
OverdueChangesMoveDeadline ==
    /\ \A pk \in Projects \cap DOMAIN project' :
           Overdue(project[pk]) /\ project'[pk] # project[pk] =>
               /\ project'[pk].deadline > today'
               /\ last'.op = "update_project"
    /\ \A pk \in Tasks \cap DOMAIN task' :
           Overdue(task[pk]) /\ task'[pk] # task[pk] =>
               /\ task'[pk].deadline > today'
               /\ last'.op = "update_task"

\* C23: the deadline rule is applied at every save against the date of that
\* save.  Once the date has reached the stored deadline of a project or task,
\* every update that keeps the deadline is rejected (marking it completed
\* included) and the row changes again only in an update that carries a
\* deadline after that day.
C23_DeadlineRecheckedAtEachSave ==
    /\ []OverdueUpdatesRejected
    /\ [][OverdueChangesMoveDeadline]_vars

\* a day has passed: a project and a task are stored with a deadline that is
\* not in the future; marking them completed under the old deadline is turned
\* down, the same update with tomorrow's date goes through
C23_Witness ==
    /\ today > 0
    /\ \E p \in Projects, k \in Tasks :
           /\ ~project[p].is_completed /\ ~task[k].is_completed
           /\ Overdue(project[p]) /\ Overdue(task[k])
           /\ task[k].project = p
           /\ RejectedOnDeadline(
                  UpdateProjectView(1, p, project[p].name, project[p].deadline, TRUE, 1))
           /\ RejectedOnDeadline(
                  UpdateTaskView(1, k, task[k].name, task[k].deadline, TRUE, "low",
                                 Str(1), p))
           /\ UpdateProjectView(1, p, project[p].name, today + 1, TRUE, 1).resp = "ok"
           /\ UpdateTaskView(1, k, task[k].name, today + 1, TRUE, "low", Str(1), p).resp
                  = "ok"

====
